---- MODULE Spec2Model ----
(***************************************************************************)
(* A model of life3d: the toroidal Game of Life grid (src/universe.rs),    *)
(* the pacing / interaction engine (src/engine.rs) and the picking test    *)
(* of src/support.rs.                                                      *)
(*                                                                         *)
(* Cells are kept in a sequence, as the Vec<Cell> of the source: the cell  *)
(* of index i (0-based in the source) is cells[i + 1].                     *)
(***************************************************************************)
EXTENDS Integers, Sequences, FiniteSets, TLC

VARIABLES
    state,      \* Engine.state: "Running" | "Stopped"
    draw,       \* Engine.draw: [cx, cy, state: "Drawing" | "None"]
    event,      \* Engine.event: "Randomize" | "Clear" | "None"
    mouse,      \* Engine.mouse: [x, y]
    frame,      \* Engine.frame
    lifecycle,  \* Engine.lifecycle
    width,      \* Universe.width
    height,     \* Universe.height
    cells,      \* Universe.cells
    panicked,   \* the process aborted on a Rust panic
    changes,    \* history: the number of change_lifecycle calls so far
    last        \* history: the last operation and the calls it made

vars == <<state, draw, event, mouse, frame, lifecycle, width, height, cells,
          panicked, changes, last>>

engineVars == <<state, draw, event, mouse, frame, lifecycle>>
universeVars == <<width, height, cells>>

----------------------------------------------------------------------------
(* Universe (src/universe.rs)                                              *)

CellState == {"Dead", "Alive"}

\* `state as u8`: Dead = 0, Alive = 1
AsU8(s) == IF s = "Alive" THEN 1 ELSE 0

Cell(s, ch) == [state |-> s, changed |-> ch]

index(w, cx, cy) == cy * w + cx

size(w, h) == w * h

is_alive(c, idx) == c[idx + 1].state = "Alive"

has_changed(c, idx) == c[idx + 1].changed

UniverseNew(w, h) == [i \in 1..(w * h) |-> Cell("Dead", TRUE)]

RECURSIVE SumSeq(_)
SumSeq(s) == IF s = <<>> THEN 0 ELSE Head(s) + SumSeq(Tail(s))

\* the offset arrays of the two loops
OffsetsX(w) == <<w - 1, 0, 1>>
OffsetsY(h) == <<h - 1, 0, 1>>

\* a faulty variant of neighbours: the cell itself is counted too
neighboursWithSelf(w, h, c, x, y) ==
    SumSeq([k \in 1..9 |->
        LET nx == OffsetsX(w)[((k - 1) \div 3) + 1]
            ny == OffsetsY(h)[((k - 1) % 3) + 1]
        IN  AsU8(c[index(w, (x + nx) % w, (y + ny) % h) + 1].state)])

\* neighbours: the two loops over the offset arrays
neighbours(w, h, c, x, y) ==
    SumSeq([k \in 1..9 |->
        LET nx == OffsetsX(w)[((k - 1) \div 3) + 1]
            ny == OffsetsY(h)[((k - 1) % 3) + 1]
            cx == (x + nx) % w
            cy == (y + ny) % h
        IN  IF nx = 0 /\ ny = 0 THEN 0
            ELSE AsU8(c[index(w, cx, cy) + 1].state)])

\* the match of step: the next state of a cell from its state and count
rule(s, n) ==
    CASE s = "Alive" /\ n < 2 -> "Dead"
      [] s = "Alive" /\ (n = 2 \/ n = 3) -> "Alive"
      [] s = "Alive" /\ n > 3 -> "Dead"
      [] s = "Dead" /\ n = 3 -> "Alive"
      [] OTHER -> s

\* next[idx] of step, computed from the buffer `c` that neighbours reads
stepCell(w, h, c, x, y) ==
    LET actual == c[index(w, x, y) + 1]
        cellstate == rule(actual.state, neighbours(w, h, c, x, y))
    IN  Cell(cellstate, actual.state # cellstate)

\* a faulty variant of step: updates self.cells in place, cell by cell
RECURSIVE stepInPlaceFrom(_, _, _, _)
stepInPlaceFrom(w, h, c, i) ==
    IF i >= w * h \/ i >= Len(c) THEN c
    ELSE stepInPlaceFrom(w, h,
            [c EXCEPT ![i + 1] = stepCell(w, h, c, i % w, i \div w)], i + 1)

stepInPlace(w, h, c) == stepInPlaceFrom(w, h, c, 0)

\* a faulty variant of step: the changed flag is left as it was
stepKeepChanged(w, h, c) ==
    [i \in 1..Len(c) |->
        IF w > 0 /\ (i - 1) \div w < h
        THEN Cell(stepCell(w, h, c, (i - 1) % w, (i - 1) \div w).state, c[i].changed)
        ELSE c[i]]

\* step: next = cells.clone(); every (x, y) of the grid is rewritten from
\* self.cells; self.cells = next
step(w, h, c) ==
    [i \in 1..Len(c) |->
        IF w > 0 /\ (i - 1) \div w < h
        THEN stepCell(w, h, c, (i - 1) % w, (i - 1) \div w)
        ELSE c[i]]

\* a faulty variant of toggle: the changed flag is not set
toggleNoFlag(w, c, x, y) ==
    LET i == index(w, x, y) + 1
    IN  [c EXCEPT ![i].state = IF c[i].state = "Dead" THEN "Alive" ELSE "Dead"]

\* a faulty variant of toggle: the whole row y is flipped
toggleRow(w, c, x, y) ==
    [i \in 1..Len(c) |->
        IF (i - 1) \div w = y
        THEN Cell(IF c[i].state = "Dead" THEN "Alive" ELSE "Dead", TRUE)
        ELSE c[i]]

toggle(w, c, x, y) ==
    LET i == index(w, x, y) + 1
    IN  [c EXCEPT ![i] = Cell(IF c[i].state = "Dead" THEN "Alive" ELSE "Dead", TRUE)]

\* a faulty variant of the zip: the range stops one short
zipLenShort(w, h, c) == IF w * h - 1 < Len(c) THEN w * h - 1 ELSE Len(c)

\* the length of (0..width * height).zip(self.cells.iter_mut())
zipLen(w, h, c) == IF w * h < Len(c) THEN w * h ELSE Len(c)

\* rand: bits[i] is the outcome of the i-th gen_bool(0.5)
rand(w, h, c, bits) ==
    [i \in 1..zipLen(w, h, c) |->
        LET s == IF bits[i] THEN "Alive" ELSE "Dead"
        IN  Cell(s, c[i].state # s)]

\* a faulty variant of clear: every cell is flagged changed
clearAllChanged(w, h, c) ==
    [i \in 1..zipLen(w, h, c) |-> Cell("Dead", TRUE)]

clear(w, h, c) ==
    [i \in 1..zipLen(w, h, c) |-> Cell("Dead", c[i].state = "Alive")]

----------------------------------------------------------------------------
(* Picking (src/support.rs, mouse_projection)                              *)

\* None of Option<[usize; 2]>
NoCell == <<>>

\* The pixel the picking ray through which hits the plane z = 0 at the
\* world origin, for the camera of the model (looking down the z axis);
\* one pixel is half a cell wide.
CentrePixel == 4

\* Lines 55-71: the point where the ray through the pixel meets the plane
\* z = 0, in half cells (twice the world coordinate); y is flipped.
rayHit2(m) == <<m.x - CentrePixel, CentrePixel - m.y>>

\* a faulty variant of mouse_projection: the upper ends of the range test
\* are inclusive
mouse_projection_inclusive(m, w, h) ==
    LET x2 == rayHit2(m)[1] + w + 1
        y2 == rayHit2(m)[2] + h + 1
    IN  IF x2 >= 0 /\ y2 >= 0 /\ x2 <= 2 * w /\ y2 <= 2 * h
        THEN <<x2 \div 2, y2 \div 2>>
        ELSE NoCell

\* a faulty variant of mouse_projection: width / 2 and height / 2 are
\* integer divisions
mouse_projection_intdiv(m, w, h) ==
    LET x2 == rayHit2(m)[1] + 2 * (w \div 2) + 1
        y2 == rayHit2(m)[2] + 2 * (h \div 2) + 1
    IN  IF x2 >= 0 /\ y2 >= 0 /\ x2 < 2 * w /\ y2 < 2 * h
        THEN <<x2 \div 2, y2 \div 2>>
        ELSE NoCell

\* Lines 72-79, in half cells: x = hit + width / 2 + 0.5, the range test,
\* and the truncating casts `x as usize`, `y as usize`.
mouse_projection(m, w, h) ==
    LET x2 == rayHit2(m)[1] + w + 1
        y2 == rayHit2(m)[2] + h + 1
    IN  IF x2 >= 0 /\ y2 >= 0 /\ x2 < 2 * w /\ y2 < 2 * h
        THEN <<x2 \div 2, y2 \div 2>>
        ELSE NoCell

----------------------------------------------------------------------------
(* Engine (src/engine.rs)                                                  *)

SHORTEST_LIFECYCLE == 2
LONGEST_LIFECYCLE == 60

\* The range of an i32 (delta: i32). The model checker's integers are
\* 32 bits wide themselves, so the sums below are arranged never to leave
\* that range.
I32Max == 2147483647
I32Min == -I32Max - 1

Min(a, b) == IF a < b THEN a ELSE b
Max(a, b) == IF a > b THEN a ELSE b

EngineEvent == {"Randomize", "Clear", "None"}

\* a faulty variant of the clamp of Engine::new: the upper clamp is missing
clampNoUpper(n) == Max(n, SHORTEST_LIFECYCLE)

\* a faulty variant of the clamp of new: the lower end is 1
clampNewFromOne(n) == Min(Max(n, 1), LONGEST_LIFECYCLE)

\* u32::min(u32::max(lifecycle, SHORTEST_LIFECYCLE), LONGEST_LIFECYCLE)
clampNew(n) == Min(Max(n, SHORTEST_LIFECYCLE), LONGEST_LIFECYCLE)

is_drawing(d) == d.state = "Drawing"

\* a faulty variant of just_drawn: no cell is remembered
just_drawn_never(d, cx, cy) == FALSE

\* a faulty variant of just_drawn: the row alone is compared
just_drawn_row(d, cx, cy) == d.cy = cy

just_drawn(d, cx, cy) == d.cx = cx /\ d.cy = cy

is_running(s) == s = "Running"

is_last_frame(f, lc) == f = lc - 1

is_first_frame(f) == f = 0

\* a faulty variant of next_frame: no wrap at the end of the generation
next_frame_nowrap(f, lc) == f + 1

\* a faulty variant of next_frame: the modulus is one too large
next_frame_offbyone(f, lc) == (f + 1) % (lc + 1)

next_frame(f, lc) == (f + 1) % lc

reset == 0

\* `self.lifecycle as i32 + delta` overflows an i32
addOverflows(lc, delta) == delta > I32Max - lc

\* the wrapping sum of a build without overflow checks
wrappingAdd(lc, delta) ==
    IF addOverflows(lc, delta)
    THEN I32Min + ((lc - 1) - (I32Max - delta))   \* lc + delta - 2^32
    ELSE lc + delta

\* a faulty variant of change_lifecycle: the frame is not clamped
change_lifecycle_keepframe(lc, f, delta) ==
    LET l == Min(Max(wrappingAdd(lc, delta), SHORTEST_LIFECYCLE), LONGEST_LIFECYCLE)
    IN  [lifecycle |-> l, frame |-> f]

\* a faulty variant of change_lifecycle: the frame restarts at 0
change_lifecycle_zeroframe(lc, f, delta) ==
    LET l == Min(Max(wrappingAdd(lc, delta), SHORTEST_LIFECYCLE), LONGEST_LIFECYCLE)
    IN  [lifecycle |-> l, frame |-> 0]

\* change_lifecycle, when the sum does not abort
change_lifecycle(lc, f, delta) ==
    LET l1 == Max(wrappingAdd(lc, delta), SHORTEST_LIFECYCLE)
        l == Min(l1, LONGEST_LIFECYCLE)
    IN  [lifecycle |-> l, frame |-> Min(f, l - 1)]

\* a faulty variant of the pacing test of step: a stopped engine freezes at once
advances_frozen(s, f, lc) == is_running(s)

\* a faulty variant of the pacing test of step: the negation of the
\* last-frame test is missing
advances_inverted(s, f, lc) == is_running(s) \/ is_last_frame(f, lc)

\* a faulty variant of the pacing test of step: a stopped engine keeps running
advances_always(s, f, lc) == TRUE

\* a faulty variant of trigger: a pending command is not overwritten
trigger_firstwins(pending, e) == IF pending = "None" THEN e ELSE pending

\* trigger: the new value of self.event
trigger(pending, e) == e

\* a faulty variant of poll: the pending command is left in the mailbox
poll_keep(pending) == [ret |-> pending, event |-> pending]

\* poll: the returned event and the new value of self.event
poll(pending) == [ret |-> pending, event |-> "None"]

\* `self.is_running() || !self.is_last_frame()`
advances(s, f, lc) == is_running(s) \/ ~is_last_frame(f, lc)

----------------------------------------------------------------------------
(* Bounds and input sets                                                   *)

\* the arguments of Engine::new (a u32; the largest one tried is 2^31 - 1)
NewLifecycles == {0, 1, 2, 3, 1000, I32Max}

\* the arguments of change_lifecycle
Deltas == {I32Min, -1, 1, I32Max}

\* change_lifecycle is called at most this many times in a run
MaxChanges == 1

\* the grids of the engine's runs, <<width, height>>
EngineGrids == {<<2, 1>>}

\* the pointer positions fed to set_mouse: off the grid, over cell (0, 0)
\* and over cell (1, 0)
MousePositions == {<<0, 0>>, <<1, 5>>, <<3, 5>>}

\* the grids of the runs of the universe's operations: at most MaxCells cells
MaxCells == 5
UniverseGrids ==
    {g \in (1..MaxCells) \X (1..MaxCells) : g[1] * g[2] <= MaxCells}

\* the grids of the runs of step alone: width and height at least 3, at
\* most MaxLifeCells cells
MaxLifeCells == 15
LifeGrids ==
    {g \in (3..MaxLifeCells) \X (3..MaxLifeCells) : g[1] * g[2] <= MaxLifeCells}

\* the grids of the runs from few alive cells, and the number of alive
\* cells they start with
SparseGrids == {<<5, 5>>, <<5, 6>>, <<6, 5>>, <<6, 6>>}
MaxAlive == 3

----------------------------------------------------------------------------
(* The state after construction                                            *)

NoCalls == <<>>

\* the history of an operation: its name, the calls step made on the
\* universe, the event poll returned, the argument of trigger, toggle or
\* change_lifecycle (for stop_drawing the cell remembered before it),
\* and for toggle the number n of consecutive toggles of the same cell
\* (1 or 2) with the value `orig` the cell had before the first of them
\* (for change_lifecycle `orig` tells whether the call changed the frame)
Did(op) ==
    [op |-> op, calls |-> NoCalls, polled |-> "None", arg |-> <<>>,
     n |-> 0, orig |-> FALSE]

\* Engine::new(n)
EngineNew(n) ==
    /\ state = "Running"
    /\ draw = [cx |-> -1, cy |-> -1, state |-> "None"]
    /\ event = "None"
    /\ mouse = [x |-> 0, y |-> 0]
    /\ frame = 0
    /\ lifecycle = clampNew(n)

\* Universe::new(w, h)
UniverseInit(w, h) ==
    /\ width = w
    /\ height = h
    /\ cells = UniverseNew(w, h)

InitEngine ==
    /\ \E n \in NewLifecycles : EngineNew(n)
    /\ \E g \in EngineGrids : UniverseInit(g[1], g[2])
    /\ panicked = FALSE
    /\ changes = 0
    /\ last = Did("new")

----------------------------------------------------------------------------
(* The operations of the engine                                            *)

SetMouse ==
    /\ ~panicked
    /\ \E p \in MousePositions : mouse' = [x |-> p[1], y |-> p[2]]
    /\ last' = Did("set_mouse")
    /\ UNCHANGED <<state, draw, event, frame, lifecycle, universeVars, panicked, changes>>

StartDrawing ==
    /\ ~panicked
    /\ draw' = [draw EXCEPT !.state = "Drawing"]
    /\ last' = Did("start_drawing")
    /\ UNCHANGED <<state, event, mouse, frame, lifecycle, universeVars, panicked, changes>>

\* a faulty variant of stop_drawing: the remembered cell is kept
StopDrawingKeepCell ==
    /\ ~panicked
    /\ draw' = [draw EXCEPT !.state = "None"]
    /\ last' = [Did("stop_drawing") EXCEPT !.arg = <<draw.cx, draw.cy>>]
    /\ UNCHANGED <<state, event, mouse, frame, lifecycle, universeVars, panicked, changes>>

StopDrawing ==
    /\ ~panicked
    /\ draw' = [cx |-> -1, cy |-> -1, state |-> "None"]
    /\ last' = [Did("stop_drawing") EXCEPT !.arg = <<draw.cx, draw.cy>>]
    /\ UNCHANGED <<state, event, mouse, frame, lifecycle, universeVars, panicked, changes>>

Startstop ==
    /\ ~panicked
    /\ state' = IF state = "Running" THEN "Stopped" ELSE "Running"
    /\ last' = Did("startstop")
    /\ UNCHANGED <<draw, event, mouse, frame, lifecycle, universeVars, panicked, changes>>

Poll ==
    /\ ~panicked
    /\ event' = poll(event).event
    /\ last' = [Did("poll") EXCEPT !.polled = poll(event).ret]
    /\ UNCHANGED <<state, draw, mouse, frame, lifecycle, universeVars, panicked, changes>>

Trigger ==
    /\ ~panicked
    /\ \E e \in EngineEvent :
        /\ event' = trigger(event, e)
        /\ last' = [Did("trigger") EXCEPT !.arg = e]
    /\ UNCHANGED <<state, draw, mouse, frame, lifecycle, universeVars, panicked, changes>>

NextFrame ==
    /\ ~panicked
    /\ frame' = next_frame(frame, lifecycle)
    /\ last' = Did("next_frame")
    /\ UNCHANGED <<state, draw, event, mouse, lifecycle, universeVars, panicked, changes>>

Reset ==
    /\ ~panicked
    /\ frame' = reset
    /\ last' = Did("reset")
    /\ UNCHANGED <<state, draw, event, mouse, lifecycle, universeVars, panicked, changes>>

\* change_lifecycle(delta). When the i32 sum overflows, a build with
\* overflow checks panics and a build without them wraps.
ChangeLifecycle ==
    /\ ~panicked
    /\ changes < MaxChanges
    /\ changes' = changes + 1
    /\ \E delta \in Deltas :
        \/ /\ addOverflows(lifecycle, delta)
           /\ panicked' = TRUE
           /\ last' = [Did("panic") EXCEPT !.arg = delta]
           /\ UNCHANGED <<frame, lifecycle>>
        \/ /\ lifecycle' = change_lifecycle(lifecycle, frame, delta).lifecycle
           /\ frame' = change_lifecycle(lifecycle, frame, delta).frame
           /\ last' = [Did("change_lifecycle") EXCEPT
                        !.arg = delta,
                        !.orig = (frame' # frame)]
           /\ UNCHANGED panicked
    /\ UNCHANGED <<state, draw, event, mouse, universeVars>>

\* The outcomes of the gen_bool calls of one rand
Bits(n) == [1..n -> BOOLEAN]

\* Engine::step, one tick of the render loop
EngineStep ==
    /\ ~panicked
    /\ LET hit == IF is_drawing(draw) THEN mouse_projection(mouse, width, height)
                  ELSE NoCell
           paints == hit # NoCell /\ ~just_drawn(draw, hit[1], hit[2])
           c1 == IF paints THEN toggle(width, cells, hit[1], hit[2]) ELSE cells
           ev == poll(event).ret
       IN  /\ draw' = IF paints THEN [draw EXCEPT !.cx = hit[1], !.cy = hit[2]] ELSE draw
           /\ event' = poll(event).event
           /\ \E bits \in IF ev = "Randomize" THEN Bits(zipLen(width, height, c1))
                          ELSE {<<>>} :
                LET c2 == CASE ev = "Randomize" -> rand(width, height, c1, bits)
                            [] ev = "Clear" -> clear(width, height, c1)
                            [] OTHER -> c1
                    f2 == IF ev \in {"Randomize", "Clear"} THEN reset ELSE frame
                    f3 == IF advances(state, f2, lifecycle)
                          THEN next_frame(f2, lifecycle) ELSE f2
                IN  /\ frame' = f3
                    /\ cells' = IF is_first_frame(f3) THEN step(width, height, c2) ELSE c2
                    /\ last' = [Did("engine_step") EXCEPT
                                !.calls = (IF paints THEN <<"toggle">> ELSE <<>>)
                                    \o (CASE ev = "Randomize" -> <<"rand">>
                                          [] ev = "Clear" -> <<"clear">>
                                          [] OTHER -> <<>>)
                                    \o (IF is_first_frame(f3) THEN <<"step">> ELSE <<>>),
                                !.polled = ev]
    /\ UNCHANGED <<state, mouse, lifecycle, width, height, panicked, changes>>

Next ==
    \/ SetMouse
    \/ StartDrawing
    \/ StopDrawing
    \/ Startstop
    \/ Poll
    \/ Trigger
    \/ NextFrame
    \/ Reset
    \/ ChangeLifecycle
    \/ EngineStep

Spec == InitEngine /\ [][Next]_vars

----------------------------------------------------------------------------
(* The operations of the universe, called directly                         *)

InitUniverse ==
    /\ EngineNew(SHORTEST_LIFECYCLE)
    /\ \E g \in UniverseGrids : UniverseInit(g[1], g[2])
    /\ panicked = FALSE
    /\ changes = 0
    /\ last = Did("new")

UniverseStep ==
    /\ cells' = step(width, height, cells)
    /\ last' = Did("step")
    /\ UNCHANGED <<engineVars, width, height, panicked, changes>>

UniverseRand ==
    /\ \E bits \in Bits(zipLen(width, height, cells)) :
        cells' = rand(width, height, cells, bits)
    /\ last' = Did("rand")
    /\ UNCHANGED <<engineVars, width, height, panicked, changes>>

UniverseClear ==
    /\ cells' = clear(width, height, cells)
    /\ last' = Did("clear")
    /\ UNCHANGED <<engineVars, width, height, panicked, changes>>

\* toggle(x, y) with x < width and y < height
UniverseToggle ==
    /\ \E x \in 0..(width - 1), y \in 0..(height - 1) :
        /\ index(width, x, y) < Len(cells)
        /\ cells' = toggle(width, cells, x, y)
        /\ last' = [Did("toggle") EXCEPT
                    !.arg = <<x, y>>,
                    !.n = IF last.op = "toggle" /\ last.arg = <<x, y>> /\ last.n = 1
                          THEN 2 ELSE 1,
                    !.orig = IF last.op = "toggle" /\ last.arg = <<x, y>> /\ last.n = 1
                             THEN last.orig
                             ELSE is_alive(cells, index(width, x, y))]
    /\ UNCHANGED <<engineVars, width, height, panicked, changes>>

NextUniverse ==
    \/ UniverseStep
    \/ UniverseRand
    \/ UniverseClear
    \/ UniverseToggle

\* Universe::new(w, h) for every pair of usize arguments of at most MaxCells
\* cells, zero included: new has no test of its arguments, and step, rand
\* and clear run their loops over the (empty) cell vector
NewGrids ==
    {g \in (0..MaxCells) \X (0..MaxCells) : g[1] * g[2] <= MaxCells}

InitNew ==
    /\ EngineNew(SHORTEST_LIFECYCLE)
    /\ \E g \in NewGrids : UniverseInit(g[1], g[2])
    /\ panicked = FALSE
    /\ changes = 0
    /\ last = Did("new")

SpecNew == InitNew /\ [][NextUniverse]_vars

SpecUniverse == InitUniverse /\ [][NextUniverse]_vars

\* The runs of picking and painting: the grids of at most MaxPickCells
\* cells, and the pointer over the pixels of MousePositions and the centre
\* pixel
MaxPickCells == 6
PickGrids ==
    {g \in (1..MaxPickCells) \X (1..MaxPickCells) : g[1] * g[2] <= MaxPickCells}

PickPixels == MousePositions \cup {<<CentrePixel, CentrePixel>>}

InitPick ==
    /\ EngineNew(SHORTEST_LIFECYCLE)
    /\ \E g \in PickGrids : UniverseInit(g[1], g[2])
    /\ panicked = FALSE
    /\ changes = 0
    /\ last = Did("new")

SetMousePick ==
    /\ \E p \in PickPixels : mouse' = [x |-> p[1], y |-> p[2]]
    /\ last' = Did("set_mouse")
    /\ UNCHANGED <<state, draw, event, frame, lifecycle, universeVars, panicked, changes>>

NextPick ==
    \/ SetMousePick
    \/ StartDrawing
    \/ StopDrawing
    \/ Startstop
    \/ EngineStep

SpecPick == InitPick /\ [][NextPick]_vars

\* The runs of step alone, from every grid main can start with:
\* Universe::new followed by rand
InitLife ==
    /\ EngineNew(SHORTEST_LIFECYCLE)
    /\ \E g \in LifeGrids :
        /\ width = g[1]
        /\ height = g[2]
        /\ \E bits \in Bits(g[1] * g[2]) :
            cells = rand(g[1], g[2], UniverseNew(g[1], g[2]), bits)
    /\ panicked = FALSE
    /\ changes = 0
    /\ last = Did("rand")

NextLife == UniverseStep

SpecLife == InitLife /\ [][NextLife]_vars

\* The runs of step from a grid with few alive cells: Universe::new
\* followed by one toggle of each cell of a set of at most MaxAlive cells
RECURSIVE toggleAll(_, _, _)
toggleAll(w, c, S) ==
    IF S = {} THEN c
    ELSE LET i == CHOOSE j \in S : TRUE
         IN  toggleAll(w, toggle(w, c, i % w, i \div w), S \ {i})

RECURSIVE SubsetsUpTo(_, _)
SubsetsUpTo(S, k) ==
    IF k = 0 THEN {{}}
    ELSE LET smaller == SubsetsUpTo(S, k - 1)
         IN  smaller \cup {T \cup {x} : T \in smaller, x \in S}

InitSparse ==
    /\ EngineNew(SHORTEST_LIFECYCLE)
    /\ \E g \in SparseGrids :
        /\ width = g[1]
        /\ height = g[2]
        /\ \E S \in SubsetsUpTo(0..(g[1] * g[2] - 1), MaxAlive) :
            cells = toggleAll(g[1], UniverseNew(g[1], g[2]), S)
    /\ panicked = FALSE
    /\ changes = 0
    /\ last = Did("new")

NextSparse == UniverseStep

SpecSparse == InitSparse /\ [][NextSparse]_vars

----------------------------------------------------------------------------
(* Reference definitions the claims are stated with                        *)

\* the indices (1-based) of the alive cells
AliveSet(c) == {i \in 1..Len(c) : c[i].state = "Alive"}

\* the number of alive cells among the 8 positions ((x+dx) mod w,
\* (y+dy) mod h), (dx, dy) in {-1,0,1} x {-1,0,1} other than (0, 0),
\* each offset counted once
RefOffsets == {d \in {-1, 0, 1} \X {-1, 0, 1} : d # <<0, 0>>}

RefNeighbours(w, h, c, x, y) ==
    Cardinality({d \in RefOffsets :
        c[((y + d[2] + h) % h) * w + ((x + d[1] + w) % w) + 1].state = "Alive"})

\* the standard rule of Life
RefAlive(alive, n) == n = 3 \/ (alive /\ n = 2)

\* one generation of Life on the torus, every cell from the previous
\* generation, with the changed flags
RefStep(w, h, c) ==
    [i \in 1..(w * h) |->
        LET was == c[i].state = "Alive"
            now == RefAlive(was, RefNeighbours(w, h, c, (i - 1) % w, (i - 1) \div w))
        IN  [state |-> IF now THEN "Alive" ELSE "Dead", changed |-> now # was]]

\* no alive cell has fewer than 2 or more than 3 alive neighbours and no
\* dead cell has exactly 3
IsStillLife(w, h, c) ==
    \A i \in 1..(w * h) :
        LET n == RefNeighbours(w, h, c, (i - 1) % w, (i - 1) \div w)
        IN  IF c[i].state = "Alive" THEN n = 2 \/ n = 3 ELSE n # 3

\* the number of randomize / clear calls among the calls of a tick
RECURSIVE CommandCalls(_)
CommandCalls(calls) ==
    IF calls = <<>> THEN 0
    ELSE (IF Head(calls) \in {"rand", "clear"} THEN 1 ELSE 0) + CommandCalls(Tail(calls))

Contains(calls, name) == \E k \in 1..Len(calls) : calls[k] = name

----------------------------------------------------------------------------
(* The claims                                                              *)

\* C1: in every state reachable from Engine::new(n) by next_frame,
\* change_lifecycle, reset, startstop, trigger, poll and ticks of
\* Engine::step, 0 <= frame < lifecycle.
C1_FrameInRange == 0 <= frame /\ frame < lifecycle

\* C1, witness: change_lifecycle(-1) has shortened a generation of 60
\* frames while the frame counter was at its end.
C1_Witness == last.op = "change_lifecycle" /\ lifecycle = 59 /\ frame = 58

\* C2: Engine::new(n) clamps the lifecycle to [2, 60] for every n (new(1)
\* gives 2, new(1000) gives 60), and the lifecycle stays within [2, 60] after
\* any sequence of change_lifecycle calls.
C2_LifecycleClamped ==
    /\ clampNew(1) = 2
    /\ clampNew(1000) = 60
    /\ \A n \in NewLifecycles : clampNew(n) \in 2..60
    /\ lifecycle \in 2..60

\* C2, witness: a change_lifecycle call has left the lifecycle at the upper
\* clamp.
C2_Witness == last.op = "change_lifecycle" /\ lifecycle = 60

\* C3: pause finishes the generation. A tick of a Stopped engine with no
\* command pending advances the frame by one while frame # lifecycle - 1
\* and holds it at lifecycle - 1 afterwards; the frame never wraps to 0.
C3_PauseFinishesGeneration ==
    [][(last'.op = "engine_step" /\ state = "Stopped" /\ event = "None")
        => /\ frame' = IF frame # lifecycle - 1 THEN frame + 1 ELSE frame
           /\ frame' # 0
           /\ ~Contains(last'.calls, "step")]_vars

\* C3, witness: a Stopped engine with a lifecycle of 4 has ticked and is at
\* frame 3.
C3_Witness ==
    /\ state = "Stopped"
    /\ last.op = "engine_step"
    /\ last.polled = "None"
    /\ lifecycle = 4
    /\ frame = 3

\* C4: the pending command is a single-slot mailbox. trigger overwrites what
\* is pending, poll returns the pending command and clears it, a tick
\* applies to the grid the command pending when it starts and no other (at
\* most one; after a Clear every cell is dead whatever was triggered
\* before), and the mailbox is empty after every tick.
C4_Mailbox ==
    [][/\ last'.op = "trigger" => event' = last'.arg
       /\ last'.op = "poll" => (last'.polled = event /\ event' = "None")
       /\ last'.op = "engine_step" =>
            /\ event' = "None"
            /\ last'.polled = event
            /\ CommandCalls(last'.calls) <= 1
            /\ Contains(last'.calls, "rand") <=> event = "Randomize"
            /\ Contains(last'.calls, "clear") <=> event = "Clear"
            /\ event = "Clear" => AliveSet(cells') = {}]_vars

\* C4, witness: a tick has consumed a Clear and left the mailbox empty.
C4_Witness ==
    /\ last.op = "engine_step"
    /\ last.polled = "Clear"
    /\ last.calls = <<"clear">>
    /\ event = "None"

\* C5: on every grid with width >= 3 and height >= 3, Universe::step
\* yields the generation the standard rule gives when every cell is
\* computed from the previous generation, and each cell's changed flag
\* equals (new alive # old alive).
C5_StepIsLife ==
    [][(last'.op = "step" /\ width >= 3 /\ height >= 3)
        => cells' = RefStep(width, height, cells)]_vars

\* C5, witness: a step on a grid at least 3 wide and high has let a cell be
\* born and a cell die.
C5_Witness ==
    /\ last.op = "step"
    /\ width >= 3
    /\ height >= 3
    /\ \E i, j \in 1..Len(cells) :
        /\ cells[i].state = "Alive" /\ cells[i].changed
        /\ cells[j].state = "Dead" /\ cells[j].changed

\* C6: for every grid with width > 0 and height > 0 and every cell (x, y),
\* the neighbour count step uses is the number of alive cells among the 8
\* positions ((x+dx) mod width, (y+dy) mod height), each offset counted once.
C6_NeighbourCount ==
    \A x \in 0..(width - 1), y \in 0..(height - 1) :
        neighbours(width, height, cells, x, y)
            = RefNeighbours(width, height, cells, x, y)

\* C6 on the grids at least 2 wide and 2 high
C6_NeighbourCountFromTwo == (width >= 2 /\ height >= 2) => C6_NeighbourCount

\* C7: still-life invariance. When no alive cell has fewer than 2 or more
\* than 3 alive neighbours and no dead cell has exactly 3, step leaves every
\* cell's alive value unchanged and sets changed = false on every cell.
C7_StillLife ==
    [][(last'.op = "step" /\ IsStillLife(width, height, cells))
        => \A i \in 1..Len(cells) :
            cells'[i].state = cells[i].state /\ ~cells'[i].changed]_vars

\* C7 on the grids at least 2 wide and 2 high
C7_StillLifeFromTwo ==
    [][(last'.op = "step" /\ width >= 2 /\ height >= 2
            /\ IsStillLife(width, height, cells))
        => \A i \in 1..Len(cells) :
            cells'[i].state = cells[i].state /\ ~cells'[i].changed]_vars

\* the blinker of C8: row 2, columns 1..3, and column 2, rows 1..3
Horizontal(w) == {index(w, x, 2) + 1 : x \in 1..3}
Vertical(w) == {index(w, 2, y) + 1 : y \in 1..3}

\* C8: on a grid with width >= 5 and height >= 5 whose only alive cells are
\* row 2, columns 1..3, one step yields exactly column 2, rows 1..3, and the
\* next step yields the horizontal configuration again.
C8_BlinkerPeriod2 ==
    [][(last'.op = "step" /\ width >= 5 /\ height >= 5)
        => /\ AliveSet(cells) = Horizontal(width)
                => AliveSet(cells') = Vertical(width)
           /\ AliveSet(cells) = Vertical(width)
                => AliveSet(cells') = Horizontal(width)]_vars

\* C8, witness: the horizontal blinker, just produced by a step from the
\* vertical one (the cells flagged changed are those in which the two differ).
C8_Witness ==
    /\ last.op = "step"
    /\ AliveSet(cells) = Horizontal(width)
    /\ {i \in 1..Len(cells) : cells[i].changed}
        = (Horizontal(width) \cup Vertical(width))
            \ (Horizontal(width) \cap Vertical(width))

\* C9: double toggle. After toggle(x, y) the cell is flagged changed; after
\* one toggle its alive value is the opposite of the original, after
\* toggle(x, y); toggle(x, y) it is the original again.
C9_DoubleToggle ==
    last.op = "toggle" =>
        LET idx == index(width, last.arg[1], last.arg[2])
        IN  /\ has_changed(cells, idx)
            /\ last.n = 1 => is_alive(cells, idx) # last.orig
            /\ last.n = 2 => is_alive(cells, idx) = last.orig

\* C9, witness: a cell that was alive has been toggled twice in a row.
C9_Witness == last.op = "toggle" /\ last.n = 2 /\ last.orig

\* C10: the number of cells equals width * height in every state reachable
\* from Universe::new by step, rand, clear and toggle, and width and height
\* never change.
C10_CellCount ==
    /\ [](Len(cells) = width * height)
    /\ [][width' = width /\ height' = height]_vars

\* C10, witness: rand or clear has rebuilt the cells of a 2 x 2 grid.
C10_Witness ==
    /\ last.op \in {"rand", "clear"}
    /\ width = 2
    /\ height = 2
    /\ Len(cells) = 4

\* C11: after rand (whatever the random outcome) and after clear, every
\* cell's changed flag equals (new alive # old alive); clear leaves every
\* cell dead, so it flags exactly the cells that were alive, and a second
\* consecutive clear leaves changed = false everywhere.
C11_RandClearChanged ==
    [][/\ last'.op \in {"rand", "clear"} =>
            /\ Len(cells') = Len(cells)
            /\ \A i \in 1..Len(cells) :
                cells'[i].changed = (cells'[i].state # cells[i].state)
       /\ last'.op = "clear" =>
            \A i \in 1..Len(cells) :
                /\ cells'[i].state = "Dead"
                /\ cells'[i].changed = (cells[i].state = "Alive")
       /\ (last.op = "clear" /\ last'.op = "clear") =>
            \A i \in 1..Len(cells) : ~cells'[i].changed]_vars

\* C11, witness: clear has run on a grid with an alive and a dead cell: one
\* cell is flagged changed and one is not.
C11_Witness ==
    /\ last.op = "clear"
    /\ \E i, j \in 1..Len(cells) : cells[i].changed /\ ~cells[j].changed

\* C12 as stated: after step, rand, clear or toggle, for every cell of the
\* grid, changed is true exactly when the cell's alive value differs from
\* its value immediately before that operation.
C12_ChangedIffDiffers ==
    [][last'.op \in {"step", "rand", "clear", "toggle"} =>
        \A i \in 1..Len(cells) :
            cells'[i].changed = (cells'[i].state # cells[i].state)]_vars

\* C12, amended: after step, rand or clear, every cell's changed flag is
\* true exactly when its alive value differs from the value before the
\* operation; after toggle(x, y) that holds of the toggled cell, and every
\* other cell keeps the flag it had.
C12_ChangedAmended ==
    [][/\ last'.op \in {"step", "rand", "clear"} =>
            \A i \in 1..Len(cells) :
                cells'[i].changed = (cells'[i].state # cells[i].state)
       /\ last'.op = "toggle" =>
            \A i \in 1..Len(cells) :
                IF i = index(width, last'.arg[1], last'.arg[2]) + 1
                THEN cells'[i].changed /\ cells'[i].state # cells[i].state
                ELSE cells'[i].changed = cells[i].changed]_vars

\* C12, witness: a toggle has left a flag set on a cell other than the
\* toggled one.
C12_Witness ==
    /\ last.op = "toggle"
    /\ \E i \in 1..Len(cells) :
        /\ i # index(width, last.arg[1], last.arg[2]) + 1
        /\ cells[i].changed

----------------------------------------------------------------------------
(* C13: constructing a grid with width == 0 or height == 0 is rejected:    *)
(* Universe::new never returns a usable grid whose width or height is      *)
(* zero.  In the runs of SpecNew, whose initial states are the grids new   *)
(* returns for every pair of arguments, no grid has a zero width or        *)
(* height.  (Violated: new(0, 1) returns a grid with no cells, on which    *)
(* step, rand and clear run.)                                              *)
C13_ZeroRejected == width > 0 /\ height > 0

\* the operations of the universe run on the grid new(0, h) or new(w, 0)
C13_ZeroGridUsed ==
    (width = 0 \/ height = 0) /\ last.op \in {"step", "rand", "clear"} /\ cells = <<>>

----------------------------------------------------------------------------
(* C14: a Randomize or Clear begins its animation at frame 0: after a tick *)
(* that consumes a Randomize or Clear command, the attribute update of the *)
(* following tick, which runs at the start of that tick, reads frame() =   *)
(* 0.  (Violated: the command tick resets the frame to 0 and then advances *)
(* it, so the following tick reads 1.)                                     *)
C14_CommandStartsAtFrame0 ==
    [][(/\ last.op = "engine_step"
        /\ last.polled \in {"Randomize", "Clear"}
        /\ last'.op = "engine_step") => frame = 0]_vars

\* what holds instead: the tick after a command tick reads frame 1
C14_CommandStartsAtFrame1 ==
    [][(/\ last.op = "engine_step"
        /\ last.polled \in {"Randomize", "Clear"}
        /\ last'.op = "engine_step") => frame = 1]_vars

----------------------------------------------------------------------------
(* C15: in every tick of Engine::step, Universe::step is invoked exactly   *)
(* when the frame counter was advanced in that tick and wrapped from       *)
(* lifecycle - 1 to 0; a frame equal to 0 that was not produced by an      *)
(* advance in the same tick (initial state, reset, the reset of a command) *)
(* never triggers a grid step.                                             *)
C15_StepExactlyOnWrap ==
    [][last'.op = "engine_step" =>
        LET before == IF event \in {"Randomize", "Clear"} THEN 0 ELSE frame
            advanced == state = "Running" \/ before # lifecycle - 1
            stepped == Contains(last'.calls, "step")
        IN  /\ stepped <=> (advanced /\ before = lifecycle - 1)
            /\ stepped => (frame' = 0 /\ last'.calls[Len(last'.calls)] = "step")
            /\ before = 0 => (~stepped /\ frame' = 1)
            /\ ~advanced => (~stepped /\ frame' = before)]_vars

\* a tick has wrapped the frame and stepped the universe
C15_Witness ==
    last.op = "engine_step" /\ Contains(last.calls, "step") /\ frame = 0

----------------------------------------------------------------------------
(* C16: during one continuous paint gesture, while the pointer projects to *)
(* the same cell on consecutive ticks that cell is toggled exactly once    *)
(* (on the first of those ticks); stop_drawing resets the remembered cell  *)
(* to none, so a new gesture starting over the previously painted cell     *)
(* toggles it again.  As a property of every step: a drawing tick over the *)
(* remembered cell toggles nothing and keeps the memory; a drawing tick    *)
(* over a cell with no cell remembered toggles it and remembers it; only a *)
(* tick and stop_drawing change the memory; stop_drawing sets it to none.  *)
C16_PaintOncePerCell ==
    [][/\ (last'.op = "engine_step" /\ is_drawing(draw)) =>
            LET hit == mouse_projection(mouse, width, height)
            IN  /\ (hit # NoCell /\ hit = <<draw.cx, draw.cy>>) =>
                    /\ ~Contains(last'.calls, "toggle")
                    /\ draw' = draw
                    /\ last'.calls = <<>> => cells' = cells
                /\ (hit # NoCell /\ draw.cx = -1 /\ draw.cy = -1) =>
                    /\ Contains(last'.calls, "toggle")
                    /\ draw' = [draw EXCEPT !.cx = hit[1], !.cy = hit[2]]
                    /\ last'.calls = <<"toggle">> =>
                            cells' = toggle(width, cells, hit[1], hit[2])
       /\ last'.op \notin {"engine_step", "stop_drawing"} =>
            (draw'.cx = draw.cx /\ draw'.cy = draw.cy)
       /\ last'.op = "stop_drawing" =>
            (draw'.cx = -1 /\ draw'.cy = -1 /\ ~is_drawing(draw'))]_vars

\* a drawing tick has left the cell under the pointer alone, because it is
\* the remembered one
C16_Witness ==
    /\ last.op = "engine_step"
    /\ is_drawing(draw)
    /\ last.calls = <<>>
    /\ mouse_projection(mouse, width, height) = <<draw.cx, draw.cy>>
    /\ is_alive(cells, index(width, draw.cx, draw.cy))

----------------------------------------------------------------------------
(* C17: only the most recently painted cell is remembered: within a single *)
(* paint gesture, a pointer path over cells A, then B (B # A), then A      *)
(* again toggles A a second time.  As a property of every step: a drawing  *)
(* tick over a cell other than the remembered cell toggles it, whatever    *)
(* was painted before, and remembers it in place of the other.             *)
C17_OnlyLastCellRemembered ==
    [][(last'.op = "engine_step" /\ is_drawing(draw) /\ draw.cx >= 0 /\ draw.cy >= 0) =>
            LET hit == mouse_projection(mouse, width, height)
            IN  (hit # NoCell /\ hit # <<draw.cx, draw.cy>>) =>
                    /\ Contains(last'.calls, "toggle")
                    /\ draw' = [draw EXCEPT !.cx = hit[1], !.cy = hit[2]]
                    /\ last'.calls = <<"toggle">> =>
                            cells' = toggle(width, cells, hit[1], hit[2])]_vars

\* cell A = (0, 0) has just been toggled back to dead and is the remembered
\* cell, and cell B = (1, 0) is alive
C17_Witness ==
    /\ last.op = "engine_step"
    /\ is_drawing(draw)
    /\ width >= 2
    /\ last.calls = <<"toggle">>
    /\ <<draw.cx, draw.cy>> = <<0, 0>>
    /\ ~is_alive(cells, index(width, 0, 0))
    /\ is_alive(cells, index(width, 1, 0))

----------------------------------------------------------------------------
(* C18: picking returns Some([gx, gy]) only when 0 <= gx < width and       *)
(* 0 <= gy < height, and None otherwise; consequently every toggle issued  *)
(* by the paint step of Engine::step addresses a cell inside the grid and  *)
(* a miss leaves grid and paint memory unchanged.                          *)
C18_PickInRange ==
    [][/\ LET gx == (rayHit2(mouse')[1] + width' + 1) \div 2
              gy == (rayHit2(mouse')[2] + height' + 1) \div 2
          IN  mouse_projection(mouse', width', height') =
                IF gx \in 0..(width' - 1) /\ gy \in 0..(height' - 1)
                THEN <<gx, gy>> ELSE NoCell
       /\ (last'.op = "engine_step" /\ Contains(last'.calls, "toggle")) =>
            /\ draw'.cx \in 0..(width - 1)
            /\ draw'.cy \in 0..(height - 1)
            /\ index(width, draw'.cx, draw'.cy) < Len(cells)
       /\ (/\ last'.op = "engine_step"
           /\ is_drawing(draw)
           /\ mouse_projection(mouse, width, height) = NoCell) =>
            /\ ~Contains(last'.calls, "toggle")
            /\ draw' = draw
            /\ last'.calls = <<>> => cells' = cells]_vars

\* a drawing tick has missed the grid, after an earlier one has painted
C18_Witness ==
    /\ last.op = "engine_step"
    /\ is_drawing(draw)
    /\ last.calls = <<>>
    /\ mouse_projection(mouse, width, height) = NoCell
    /\ draw.cx >= 0

----------------------------------------------------------------------------
(* C19: picking round trip: when the picking ray hits the grid plane at    *)
(* the world origin, the returned cell is (width / 2, height / 2) for      *)
(* every grid width and height, odd or even.  (Violated on a grid of odd   *)
(* width or height.)                                                       *)
C19_CentreIsHalf ==
    rayHit2(mouse) = <<0, 0>> =>
        mouse_projection(mouse, width, height) = <<width \div 2, height \div 2>>

(* C19, amended: when the picking ray hits the grid plane at the world     *)
(* origin, picking misses if width or height is 1 and otherwise returns    *)
(* the cell ((width + 1) / 2, (height + 1) / 2) in integer division, which *)
(* is (width / 2, height / 2) exactly when both are even.                  *)
C19_CentreAmended ==
    rayHit2(mouse) = <<0, 0>> =>
        /\ mouse_projection(mouse, width, height) =
            IF width = 1 \/ height = 1 THEN NoCell
            ELSE <<(width + 1) \div 2, (height + 1) \div 2>>
        /\ (width % 2 = 0 /\ height % 2 = 0) =>
            mouse_projection(mouse, width, height) = <<width \div 2, height \div 2>>

\* a tick has painted the cell picked through the centre pixel on a grid
\* of odd width
C19_Witness ==
    /\ rayHit2(mouse) = <<0, 0>>
    /\ width = 3
    /\ last.op = "engine_step"
    /\ Contains(last.calls, "toggle")
    /\ <<draw.cx, draw.cy>> = <<2, (height + 1) \div 2>>

----------------------------------------------------------------------------
(* C20: for every i32 delta, including deltas for which lifecycle + delta  *)
(* does not fit in an i32, change_lifecycle(delta) sets lifecycle to the   *)
(* mathematical value lifecycle + delta clamped to [2, 60] without         *)
(* aborting.  (Violated: for lifecycle + delta > 2^31 - 1 the call panics  *)
(* or leaves lifecycle = 2.)                                               *)
ClampedSum(lc, delta) ==
    IF delta >= LONGEST_LIFECYCLE - lc THEN LONGEST_LIFECYCLE
    ELSE IF delta <= SHORTEST_LIFECYCLE - lc THEN SHORTEST_LIFECYCLE
    ELSE lc + delta

C20_ChangeLifecycleTotal ==
    [][last'.op \in {"change_lifecycle", "panic"} =>
        /\ ~panicked'
        /\ lifecycle' = ClampedSum(lifecycle, last'.arg)]_vars

\* what holds instead: the clamped sum whenever lifecycle + delta fits
C20_ChangeLifecycleInRange ==
    [][(last'.op \in {"change_lifecycle", "panic"} /\ ~addOverflows(lifecycle, last'.arg)) =>
        /\ ~panicked'
        /\ lifecycle' = ClampedSum(lifecycle, last'.arg)]_vars

----------------------------------------------------------------------------
(* C21: change_lifecycle leaves the frame unchanged when it is still below *)
(* the new lifecycle and otherwise sets it to lifecycle - 1, and it never  *)
(* changes the run state, the pending command or the paint state.          *)
C21_ChangeLifecycleFrame ==
    [][last'.op = "change_lifecycle" =>
        /\ frame' = IF frame < lifecycle' THEN frame ELSE lifecycle' - 1
        /\ state' = state
        /\ event' = event
        /\ draw' = draw]_vars

\* a change_lifecycle has clamped the frame down to the new last frame
C21_Witness ==
    last.op = "change_lifecycle" /\ last.orig /\ frame = lifecycle - 1

----------------------------------------------------------------------------
(* C22: while Running and with no command triggered and no lifecycle       *)
(* change, every tick sets frame to (frame + 1) mod lifecycle, so the grid *)
(* is stepped exactly by the tick that starts at frame lifecycle - 1, that *)
(* is every lifecycle ticks and never in between, and the tick that steps  *)
(* leaves frame 0.                                                         *)
C22_RunningTickAdvances ==
    [][(last'.op = "engine_step" /\ state = "Running" /\ event = "None") =>
        /\ frame' = (frame + 1) % lifecycle
        /\ lifecycle' = lifecycle
        /\ Contains(last'.calls, "step") <=> frame = lifecycle - 1
        /\ Contains(last'.calls, "step") <=> frame' = 0]_vars

\* a running tick without a command has ended a generation of more than
\* two frames
C22_Witness ==
    /\ last.op = "engine_step"
    /\ last.polled = "None"
    /\ state = "Running"
    /\ lifecycle > SHORTEST_LIFECYCLE
    /\ Contains(last.calls, "step")
    /\ frame = 0

----------------------------------------------------------------------------
(* C23: while the engine is Stopped, no tick of Engine::step invokes       *)
(* Universe::step, whatever commands, lifecycle changes or paint actions   *)
(* are interleaved: the grid changes only through the toggle, rand and     *)
(* clear of a tick.                                                        *)
C23_StoppedNeverSteps ==
    [][state = "Stopped" =>
        /\ last'.op = "engine_step" =>
            /\ \A k \in 1..Len(last'.calls) : last'.calls[k] \in {"toggle", "rand", "clear"}
            /\ cells' # cells => last'.calls # <<>>
        /\ last'.op # "engine_step" => cells' = cells]_vars

\* a tick of a stopped engine waiting at the last frame has painted a cell
C23_Witness ==
    /\ state = "Stopped"
    /\ last.op = "engine_step"
    /\ frame = lifecycle - 1
    /\ last.calls = <<"toggle">>

----------------------------------------------------------------------------
(* C24: in a tick that consumes a Randomize or Clear command,              *)
(* Universe::step is not invoked, in both Running and Stopped states and   *)
(* for every lifecycle in [2, 60]: the grid at the end of that tick is     *)
(* exactly the output of rand or clear (applied to the grid the paint step *)
(* of the tick left).                                                      *)
C24_CommandTickNoStep ==
    [][(last'.op = "engine_step" /\ event \in {"Randomize", "Clear"}) =>
        LET painted == IF Contains(last'.calls, "toggle")
                       THEN toggle(width, cells, draw'.cx, draw'.cy) ELSE cells
        IN  /\ ~Contains(last'.calls, "step")
            /\ frame' = 1
            /\ event = "Clear" => cells' = clear(width, height, painted)
            /\ event = "Randomize" =>
                \E bits \in Bits(Len(cells)) : cells' = rand(width, height, painted, bits)]_vars

\* a stopped engine with the longest lifecycle has consumed a command
C24_Witness ==
    /\ last.op = "engine_step"
    /\ last.polled \in {"Randomize", "Clear"}
    /\ state = "Stopped"
    /\ lifecycle = LONGEST_LIFECYCLE
    /\ frame = 1

----------------------------------------------------------------------------
(* C25: when the engine is driven through its operations and ticks,        *)
(* whenever the paint state is Idle (not drawing) the remembered           *)
(* last-painted cell is none, (-1, -1).                                    *)
C25_IdleHasNoCell ==
    ~is_drawing(draw) => (draw.cx = -1 /\ draw.cy = -1)

\* stop_drawing has ended a gesture that had painted a cell
C25_Witness ==
    /\ last.op = "stop_drawing"
    /\ last.arg # <<-1, -1>>
    /\ ~is_drawing(draw)
    /\ draw.cx = -1

----------------------------------------------------------------------------
(* C26: toggle(x, y) with in-range x and y changes the alive value of cell *)
(* (x, y) only: the alive value of every other cell is left unchanged.     *)
C26_ToggleOnlyOneCell ==
    [][last'.op = "toggle" =>
        LET idx == index(width, last'.arg[1], last'.arg[2])
        IN  /\ Len(cells') = Len(cells)
            /\ is_alive(cells', idx) # is_alive(cells, idx)
            /\ \A i \in 0..(Len(cells) - 1) :
                i # idx => is_alive(cells', i) = is_alive(cells, i)]_vars

\* a cell has been toggled off beside a cell of its row that stays alive
C26_Witness ==
    /\ last.op = "toggle"
    /\ width >= 2
    /\ ~is_alive(cells, index(width, last.arg[1], last.arg[2]))
    /\ \E x \in 0..(width - 1) :
        x # last.arg[1] /\ is_alive(cells, index(width, x, last.arg[2]))

====
